---- MODULE Spec2Model ----
(***************************************************************************)
(* beetle-nonzero: NonZero<T>, a wrapper around an unsigned integer that   *)
(* is meant never to hold zero, its operators, and the ranges over it.     *)
(*                                                                         *)
(* Two programs are modelled.  Spec is a program that builds two NonZero   *)
(* values with the constructors and then applies the operators of          *)
(* src/src/lib.rs to them, in any order and any number of times.           *)
(* SpecRange is a program that builds a range of src/src/ranges.rs and     *)
(* calls next on it again and again.                                       *)
(*                                                                         *)
(* The crate compiles differently under cfg(debug_assertions), and the     *)
(* primitive integer operators behave differently with overflow checks on  *)
(* and off; both are build settings, chosen once, in Init.                 *)
(***************************************************************************)
EXTENDS Integers, Sequences, FiniteSets, TLC

VARIABLES
    debug_assertions,   \* cfg(debug_assertions) of the build
    overflow_checks,    \* overflow-checks of the build (primitive + - * << >> pow)
    dom,                \* the domain T: "u8" (fixed width) or "big" (BigUint)
    self,               \* the NonZero<T> the operators are applied to: Option<NonZero<T>>
    rhs,                \* the right-hand operand: Option<NonZero<T>>
    lhs,                \* the value self held when the last operation was called
    op,                 \* the last operation called
    arg,                \* the raw argument of the last call: new's value, pow's exponent
    out,                \* what the last operation returned, or that it panicked
    pc,                 \* where the program is
    range,              \* the range: Option<RangeNonZeroUnsigned<T>> or Option<RangeNonZeroBigUint>
    raw_start, raw_stop,\* the bounds the range was asked for
    item,               \* what the last call of next returned
    yielded,            \* the values next has returned so far, in order
    calls,              \* the number of next calls made
    nones               \* the number of next calls that returned None

opVars == <<self, rhs, lhs, op, arg, out>>
rangeVars == <<range, raw_start, raw_stop, item, yielded, calls, nones>>
buildVars == <<debug_assertions, overflow_checks, dom>>
vars == <<debug_assertions, overflow_checks, dom, self, rhs, lhs, op,
          arg, out, pc, range, raw_start, raw_stop, item, yielded, calls, nones>>

(***************************************************************************)
(* The domains.                                                            *)
(***************************************************************************)
\* u8: the narrowest of the fixed-width domains Uint is implemented for.
Bits == 8
UMax == (2 ^ Bits) - 1

\* Bounds of the model.
MaxRhs == 3      \* right-hand operands are the MaxRhs smallest and the MaxRhs largest values
MaxBig == 6      \* BigUint inputs are 0..MaxBig
BigCap == 40     \* the operators are applied to a BigUint self of at most BigCap
MaxExp == 3      \* pow exponents are 0..MaxExp
MaxRaw == 10     \* range bounds are 0..MaxRaw and the MaxTop largest values of u8
MaxTop == 2
MaxNones == 3    \* next is called until it has returned None MaxNones times

\* Results: a returned value, or a panic (which unwinds: nothing is returned).
Ok(v) == [tag |-> "ok", value |-> v]
Panic == [tag |-> "panic", value |-> 0]
\* Option<NonZero<T>>.
Some(nz) == [tag |-> "some", value |-> nz.value]
None == [tag |-> "none", value |-> 0]
\* A call that has not happened.
NoCall == [tag |-> "nocall", value |-> 0]

\* struct NonZero<T> { value: T }
NonZero(v) == [value |-> v]

(***************************************************************************)
(* The operators of the domain T, as the build compiles them.  For u8 an   *)
(* overflow panics with overflow checks on and wraps modulo 2^Bits with    *)
(* them off; BigUint does not overflow, and its subtraction panics on      *)
(* underflow in every build.                                               *)
(***************************************************************************)
Wrap(n) == n % (2 ^ Bits)

is_zero(v) == v = 0

prim_add(a, b) ==
    IF dom = "big" THEN Ok(a + b)
    ELSE IF a + b > UMax
         THEN (IF overflow_checks THEN Panic ELSE Ok(Wrap(a + b)))
         ELSE Ok(a + b)

prim_sub(a, b) ==
    IF dom = "big" THEN (IF a < b THEN Panic ELSE Ok(a - b))
    ELSE IF a < b
         THEN (IF overflow_checks THEN Panic ELSE Ok(Wrap(a - b)))
         ELSE Ok(a - b)

prim_mul(a, b) ==
    IF dom = "big" THEN Ok(a * b)
    ELSE IF a * b > UMax
         THEN (IF overflow_checks THEN Panic ELSE Ok(Wrap(a * b)))
         ELSE Ok(a * b)

prim_div(a, b) ==
    IF b = 0 THEN Panic ELSE Ok(a \div b)

\* value << amount: an amount of Bits or more overflows (a panic, or the amount
\* masked to the width); the bits shifted out are dropped.
prim_shl(a, s) ==
    IF dom = "big" THEN Ok(a * (2 ^ s))
    ELSE IF s >= Bits
         THEN (IF overflow_checks THEN Panic ELSE Ok(Wrap(a * (2 ^ (s % Bits)))))
         ELSE Ok(Wrap(a * (2 ^ s)))

prim_shr(a, s) ==
    IF dom = "big" THEN Ok(a \div (2 ^ s))
    ELSE IF s >= Bits
         THEN (IF overflow_checks THEN Panic ELSE Ok(a \div (2 ^ (s % Bits))))
         ELSE Ok(a \div (2 ^ s))

\* value.pow(e): repeated multiplication in T, so an overflowing product panics or
\* wraps as prim_mul does; pow(v, 0) is 1 for every v.
RECURSIVE PowFrom(_, _, _)
PowFrom(acc, a, e) ==
    IF e = 0 THEN Ok(acc)
    ELSE IF prim_mul(acc, a).tag = "panic" THEN Panic
         ELSE PowFrom(prim_mul(acc, a).value, a, e - 1)

prim_pow(a, e) == PowFrom(1, a, e)

\* The number of trailing zero bits of v; u8::trailing_zeros(0) is the width.
RECURSIVE CountTrailingZeros(_)
CountTrailingZeros(v) ==
    IF v % 2 = 1 THEN 0 ELSE 1 + CountTrailingZeros(v \div 2)

\* self.value.trailing_zeros() of a primitive
prim_trailing_zeros(v) ==
    IF v = 0 THEN Bits ELSE CountTrailingZeros(v)

\* TrailingZeros for NonZero<T>: BigUint::trailing_zeros is an Option, None for zero.
trailing_zeros(nz) ==
    IF dom = "big"
    THEN (IF nz.value = 0 THEN 0 ELSE CountTrailingZeros(nz.value))
    ELSE prim_trailing_zeros(nz.value)

(***************************************************************************)
(* NonZero<T>: the constructors.                                           *)
(***************************************************************************)
new_accepts_zero(value) == Some(NonZero(value))

new(value) ==
    IF is_zero(value) THEN None ELSE Some(NonZero(value))

\* From<NonZeroU8> for NonZero<u8>: value.get()
from(value) == NonZero(value)

one == NonZero(1)

(***************************************************************************)
(* NonZero<T>: the operators.  Each returns Ok(the value wrapped by the    *)
(* NonZero it returns) or Panic.                                           *)
(***************************************************************************)
add(a, b) == prim_add(a.value, b.value)

sub_swapped(a, b) == prim_sub(b.value, a.value)

sub(a, b) ==
    IF debug_assertions /\ a.value < b.value
    THEN Panic
    ELSE prim_sub(a.value, b.value)

mul(a, b) == prim_mul(a.value, b.value)

div(a, b) ==
    IF debug_assertions /\ a.value < b.value
    THEN Panic
    ELSE prim_div(a.value, b.value)

\* Shl, Shr: self.value << rhs.value.  For NonZero<BigUint> the amount is a raw T
\* (Shl<T>), here the value the right-hand operand wraps.  Neither checks the result.
shl(a, b) == prim_shl(a.value, b.value)

shr(a, b) == prim_shr(a.value, b.value)

pow(a, e) == prim_pow(a.value, e)

wtz_halve_once(a) ==
    IF a.value % 2 = 0 THEN Ok(a.value \div 2) ELSE Ok(a.value)

without_trailing_zeros(a) == prim_shr(a.value, trailing_zeros(a))

(***************************************************************************)
(* The program of Spec.                                                    *)
(***************************************************************************)
U8 == 0 .. UMax
RhsInputs == (0 .. MaxRhs) \cup ((UMax + 1 - MaxRhs) .. UMax)
BigInputs == 0 .. MaxBig

NoRange == [tag |-> "none", start |-> 0, stop |-> 0, value |-> 0]

RangeIdle ==
    /\ range = NoRange
    /\ raw_start = 0
    /\ raw_stop = 0
    /\ item = NoCall
    /\ yielded = <<>>
    /\ calls = 0
    /\ nones = 0

OpsIdle ==
    /\ self = None
    /\ rhs = None
    /\ lhs = 0
    /\ op = "init"
    /\ arg = 0
    /\ out = NoCall

Init ==
    /\ debug_assertions \in BOOLEAN
    /\ overflow_checks \in BOOLEAN
    /\ dom \in {"u8", "big"}
    /\ OpsIdle
    /\ pc = "start"
    /\ RangeIdle

\* The raw values of T the program may pass to a constructor.
Raw == IF dom = "u8" THEN U8 ELSE BigInputs
RawRhs == IF dom = "u8" THEN RhsInputs ELSE BigInputs

\* let a = NonZero::new(v);  the program goes on with Some, and ends with None
NewSelf ==
    /\ pc = "start"
    /\ \E v \in Raw :
        /\ arg' = v
        /\ out' = new(v)
        /\ self' = new(v)
        /\ pc' = IF new(v).tag = "some" THEN "have_self" ELSE "rejected"
    /\ op' = "new"
    /\ UNCHANGED <<rhs, lhs>>
    /\ UNCHANGED buildVars /\ UNCHANGED rangeVars

\* let a = NonZero::from(n) for a native NonZeroU8 n, which is not zero
FromSelf ==
    /\ pc = "start"
    /\ dom = "u8"
    /\ \E v \in U8 \ {0} :
        /\ arg' = v
        /\ out' = Some(from(v))
        /\ self' = Some(from(v))
    /\ pc' = "have_self"
    /\ op' = "from"
    /\ UNCHANGED <<rhs, lhs>>
    /\ UNCHANGED buildVars /\ UNCHANGED rangeVars

\* let a = NonZero::one()
OneSelf ==
    /\ pc = "start"
    /\ out' = Some(one)
    /\ self' = Some(one)
    /\ pc' = "have_self"
    /\ op' = "one"
    /\ UNCHANGED <<rhs, lhs, arg>>
    /\ UNCHANGED buildVars /\ UNCHANGED rangeVars

\* let b = NonZero::new(v)
NewRhs ==
    /\ pc = "have_self"
    /\ \E v \in RawRhs :
        /\ arg' = v
        /\ out' = new(v)
        /\ rhs' = new(v)
        /\ pc' = IF new(v).tag = "some" THEN "ready" ELSE "rejected"
    /\ op' = "new"
    /\ UNCHANGED <<self, lhs>>
    /\ UNCHANGED buildVars /\ UNCHANGED rangeVars

Ready ==
    /\ pc = "ready"
    /\ dom = "big" => self.value <= BigCap

\* let r = a <op> b: the operands are Copy or cloned, a is left as it was
Call(name, result, e) ==
    /\ Ready
    /\ op' = name
    /\ lhs' = self.value
    /\ arg' = e
    /\ out' = result
    /\ pc' = IF result.tag = "panic" THEN "panicked" ELSE "ready"
    /\ UNCHANGED <<self, rhs>>
    /\ UNCHANGED buildVars /\ UNCHANGED rangeVars

\* a <op>= b, that is *self = self.clone() <op> rhs: a panic leaves a as it was
CallAssign(name, result) ==
    /\ Ready
    /\ op' = name
    /\ lhs' = self.value
    /\ arg' = 0
    /\ out' = result
    /\ self' = IF result.tag = "panic" THEN self ELSE Some(NonZero(result.value))
    /\ pc' = IF result.tag = "panic" THEN "panicked" ELSE "ready"
    /\ UNCHANGED rhs
    /\ UNCHANGED buildVars /\ UNCHANGED rangeVars

Add == Call("add", add(self, rhs), 0)
Sub == Call("sub", sub(self, rhs), 0)
Mul == Call("mul", mul(self, rhs), 0)
Div == Call("div", div(self, rhs), 0)
Shl == Call("shl", shl(self, rhs), 0)
Shr == Call("shr", shr(self, rhs), 0)
Pow == \E e \in 0 .. MaxExp : Call("pow", pow(self, e), e)
WithoutTrailingZeros == Call("without_trailing_zeros", without_trailing_zeros(self), 0)

add_assign == add(self, rhs)
sub_assign == sub(self, rhs)
mul_assign == mul(self, rhs)
div_assign == div(self, rhs)

AddAssign == CallAssign("add_assign", add_assign)
SubAssign == CallAssign("sub_assign", sub_assign)
MulAssign == CallAssign("mul_assign", mul_assign)
DivAssign == CallAssign("div_assign", div_assign)

ValueOps == {"add", "sub", "mul", "div", "shl", "shr", "pow", "without_trailing_zeros"}
AssignOps == {"add_assign", "sub_assign", "mul_assign", "div_assign"}

\* a = r: the value the last operator returned becomes the left-hand operand
Rebind ==
    /\ pc = "ready"
    /\ op \in ValueOps
    /\ out.tag = "ok"
    /\ self' = Some(NonZero(out.value))
    /\ op' = "rebind"
    /\ UNCHANGED <<rhs, lhs, arg, out, pc>>
    /\ UNCHANGED buildVars /\ UNCHANGED rangeVars

Next ==
    \/ NewSelf
    \/ FromSelf
    \/ OneSelf
    \/ NewRhs
    \/ Add
    \/ Sub
    \/ Mul
    \/ Div
    \/ Shl
    \/ Shr
    \/ Pow
    \/ WithoutTrailingZeros
    \/ AddAssign
    \/ SubAssign
    \/ MulAssign
    \/ DivAssign
    \/ Rebind

Spec == Init /\ [][Next]_vars

(***************************************************************************)
(* The ranges of src/src/ranges.rs.  A range is the record of its three    *)
(* fields, each the value its NonZero wraps.                               *)
(***************************************************************************)
Range(start, stop, value) ==
    [tag |-> "some", start |-> start.value, stop |-> stop.value, value |-> value.value]

\* RangeNonZeroUnsigned::new
RangeNonZeroUnsigned_new(start, stop) == Range(start, stop, start)

\* ToNonZero::to_nonzero of a primitive: the NonZero of a value that is not zero
to_nonzero(v) ==
    IF v = 0 THEN None ELSE Some(NonZero(v))

from_primitives_start_only(start, stop) ==
    IF to_nonzero(start).tag = "none" THEN NoRange
    ELSE Range(NonZero(start), NonZero(stop), NonZero(start))

\* RangeNonZeroUnsigned::from_primitives: each ? returns None from the function
from_primitives(start, stop) ==
    IF to_nonzero(start).tag = "none" THEN NoRange
    ELSE IF to_nonzero(stop).tag = "none" THEN NoRange
    ELSE Range(to_nonzero(start), to_nonzero(stop), to_nonzero(start))

\* RangeNonZeroBigUint::new
RangeNonZeroBigUint_new(start, stop) == Range(start, stop, start)

\* RangeNonZeroBigUint::from_biguints
from_biguints(start, stop) ==
    IF new(start).tag = "none" THEN NoRange
    ELSE IF new(stop).tag = "none" THEN NoRange
    ELSE RangeNonZeroBigUint_new(new(start), new(stop))

next_increment_then_yield(r) ==
    IF r.value < r.stop
    THEN [range |-> [r EXCEPT !.value = r.value + 1], item |-> Some(NonZero(r.value + 1))]
    ELSE [range |-> r, item |-> None]

next_restarts(r) ==
    IF r.value < r.stop
    THEN [range |-> [r EXCEPT !.value = r.value + 1], item |-> Some(NonZero(r.value))]
    ELSE [range |-> [r EXCEPT !.value = r.start], item |-> None]

next_inclusive(r) ==
    IF r.value <= r.stop
    THEN [range |-> [r EXCEPT !.value = r.value + 1], item |-> Some(NonZero(r.value))]
    ELSE [range |-> r, item |-> None]

\* Iterator::next for RangeNonZeroUnsigned: the range after the call and what the
\* call returned.  self.value += one is add_assign, which panics where add does.
next(r) ==
    IF r.value < r.stop
    THEN IF add(NonZero(r.value), one).tag = "panic"
         THEN [range |-> r, item |-> Panic]
         ELSE [range |-> [r EXCEPT !.value = add(NonZero(r.value), one).value],
               item |-> Some(NonZero(r.value))]
    ELSE [range |-> r, item |-> None]

\* Iterator::next for RangeNonZeroBigUint
next_biguint(r) ==
    IF r.value < r.stop
    THEN IF add(NonZero(r.value), one).tag = "panic"
         THEN [range |-> r, item |-> Panic]
         ELSE [range |-> [r EXCEPT !.value = add(NonZero(r.value), one).value],
               item |-> Some(NonZero(r.value))]
    ELSE [range |-> r, item |-> None]

(***************************************************************************)
(* The program of SpecRange.                                               *)
(***************************************************************************)
RangeRaw == (0 .. MaxRaw) \cup ((UMax + 1 - MaxTop) .. UMax)

InitRange ==
    /\ debug_assertions \in BOOLEAN
    /\ overflow_checks \in BOOLEAN
    /\ dom \in {"u8", "big"}
    /\ OpsIdle
    /\ pc = "start"
    /\ RangeIdle

Build(name, s, t, r) ==
    /\ pc = "start"
    /\ op' = name
    /\ raw_start' = s
    /\ raw_stop' = t
    /\ range' = r
    /\ pc' = IF r.tag = "some" THEN "iterating" ELSE "rejected"
    /\ UNCHANGED <<self, rhs, lhs, arg, out, item, yielded, calls, nones>>
    /\ UNCHANGED buildVars

\* RangeNonZeroUnsigned::new(a, b) of two NonZero<u8> built by NonZero::new
RangeNew ==
    /\ dom = "u8"
    /\ \E s \in RangeRaw \ {0}, t \in RangeRaw \ {0} :
        Build("new", s, t, RangeNonZeroUnsigned_new(NonZero(s), NonZero(t)))

RangeFromPrimitives ==
    /\ dom = "u8"
    /\ \E s \in RangeRaw, t \in RangeRaw :
        Build("from_primitives", s, t, from_primitives(s, t))

RangeNewBig ==
    /\ dom = "big"
    /\ \E s \in BigInputs \ {0}, t \in BigInputs \ {0} :
        Build("new", s, t, RangeNonZeroBigUint_new(NonZero(s), NonZero(t)))

RangeFromBiguints ==
    /\ dom = "big"
    /\ \E s \in BigInputs, t \in BigInputs :
        Build("from_biguints", s, t, from_biguints(s, t))

\* One call of next on the range.
Step(res) ==
    /\ pc = "iterating"
    /\ nones < MaxNones
    /\ range' = res.range
    /\ item' = res.item
    /\ calls' = calls + 1
    /\ yielded' = IF res.item.tag = "some" THEN Append(yielded, res.item.value) ELSE yielded
    /\ nones' = IF res.item.tag = "none" THEN nones + 1 ELSE nones
    /\ pc' = IF res.item.tag = "panic" THEN "panicked" ELSE "iterating"
    /\ UNCHANGED <<self, rhs, lhs, op, arg, out, raw_start, raw_stop>>
    /\ UNCHANGED buildVars

IterNext == dom = "u8" /\ Step(next(range))

IterNextBig == dom = "big" /\ Step(next_biguint(range))

NextRange ==
    \/ RangeNew
    \/ RangeFromPrimitives
    \/ RangeNewBig
    \/ RangeFromBiguints
    \/ IterNext
    \/ IterNextBig

SpecRange == InitRange /\ [][NextRange]_vars

(***************************************************************************)
(* Properties of Spec: the constructors and the operators.                 *)
(***************************************************************************)
Returned == out.tag = "ok"
Panicked == out.tag = "panic"
Operands == rhs.tag = "some" /\ lhs # 0 /\ rhs.value # 0
InDomain(n) == dom = "big" \/ n <= UMax

\* C1: NonZero::new(v) is Some exactly when v is not zero, the Some wraps v
\* itself, and new(0) is None; new never panics.
C1_NewPresentIffNonzero ==
    op = "new" =>
        /\ out.tag \in {"some", "none"}
        /\ (out.tag = "some") <=> (arg # 0)
        /\ out.tag = "some" => out.value = arg
        /\ arg = 0 => out = None

C1_Witness_ZeroRejected ==
    op = "new" /\ arg = 0 /\ out = None /\ pc = "rejected"

\* C2: on a fixed-width domain no NonZero that an operation returns or leaves
\* in place wraps zero: an operation whose result would be zero fails instead.
C2_NonZeroInvariant ==
    dom = "u8" =>
        /\ self.tag = "some" => self.value # 0
        /\ rhs.tag = "some" => rhs.value # 0
        /\ out.tag \in {"ok", "some"} => out.value # 0

\* C3: for nonzero a <= b, a - b and a -= b panic: they return no NonZero.
C3_SubPanicsWhenNotGreater ==
    (op \in {"sub", "sub_assign"} /\ Operands /\ lhs <= rhs.value) => Panicked

\* C4: for nonzero a < b, a / b and a /= b panic, and for a >= b they do not.
C4_DivPanicsIffLess ==
    (op \in {"div", "div_assign"} /\ Operands) => (Panicked <=> lhs < rhs.value)

\* C5: the operators agree with the arithmetic of T on the wrapped values: a + b
\* wraps a.value + b.value and a * b wraps a.value * b.value (as T computes them:
\* exactly when the result is a value of T, and otherwise T's overflow, a panic or
\* the result modulo 2^Bits); for a > b, a - b wraps a.value - b.value, not zero;
\* for a >= b, a / b wraps the floor of a.value / b.value, not zero.
C5_OperatorsAgreeWithDomain ==
    Operands =>
        /\ op \in {"add", "add_assign"} =>
            /\ InDomain(lhs + rhs.value) => out = Ok(lhs + rhs.value)
            /\ ~InDomain(lhs + rhs.value) => (Panicked \/ out = Ok((lhs + rhs.value) % (2 ^ Bits)))
        /\ op \in {"mul", "mul_assign"} =>
            /\ InDomain(lhs * rhs.value) => out = Ok(lhs * rhs.value)
            /\ ~InDomain(lhs * rhs.value) => (Panicked \/ out = Ok((lhs * rhs.value) % (2 ^ Bits)))
        /\ (op \in {"sub", "sub_assign"} /\ lhs > rhs.value) =>
            /\ out = Ok(lhs - rhs.value)
            /\ out.value # 0
        /\ (op \in {"div", "div_assign"} /\ lhs >= rhs.value) =>
            /\ out = Ok(lhs \div rhs.value)
            /\ out.value # 0
        /\ op \in AssignOps /\ Returned => self = Some(NonZero(out.value))

C5_Witness_ThreeOverTwo ==
    dom = "u8" /\ op = "div" /\ lhs = 3 /\ rhs.value = 2 /\ out = Ok(1)

IsPowerOfTwo(v) == \E k \in 0 .. (Bits - 1) : v = 2 ^ k

\* C9: for every nonzero v of a fixed-width domain without_trailing_zeros
\* returns v >> trailing_zeros(v): not zero, odd, v divided by the largest power
\* of two that divides v, and a value the operation maps to itself; 166 gives
\* 83 and every power of two gives 1.
C9_WithoutTrailingZeros ==
    (op = "without_trailing_zeros" /\ dom = "u8" /\ lhs # 0) =>
        /\ Returned
        /\ out.value # 0
        /\ out.value % 2 = 1
        /\ \E k \in 0 .. (Bits - 1) : lhs = out.value * (2 ^ k)
        /\ without_trailing_zeros(NonZero(out.value)) = out
        /\ lhs = 166 => out.value = 83
        /\ IsPowerOfTwo(lhs) => out.value = 1

C9_Witness_166Gives83 ==
    op = "without_trailing_zeros" /\ dom = "u8" /\ lhs = 166 /\ out = Ok(83)

(***************************************************************************)
(* Properties of SpecRange.                                                *)
(***************************************************************************)
Built == range.tag = "some"
Ascending == Built /\ range.start < range.stop
Exhausted == nones > 0
Larger(a, b) == IF a >= b THEN a ELSE b

\* C6, as claimed: in a range with start < stop the first value next yields is
\* start + 1, each later one is the one before plus 1, and the last is stop.
C6_YieldsFromStartPlusOne ==
    Ascending =>
        /\ \A i \in 1 .. Len(yielded) : yielded[i] = range.start + i
        /\ Exhausted => (Len(yielded) > 0 /\ yielded[Len(yielded)] = range.stop)

\* C6, amended: in a range with start < stop the first value next yields is
\* start, each later one is the one before plus 1, and the last is stop - 1;
\* start = 1, stop = 5 yields 1, 2, 3, 4 and start = 1, stop = 3 yields 1, 2.
C6_YieldsFromStart ==
    Ascending =>
        /\ \A i \in 1 .. Len(yielded) : yielded[i] = range.start + i - 1
        /\ Exhausted => (Len(yielded) > 0 /\ yielded[Len(yielded)] = range.stop - 1)
        /\ (Exhausted /\ range.start = 1 /\ range.stop = 5) => yielded = <<1, 2, 3, 4>>
        /\ (Exhausted /\ range.start = 1 /\ range.stop = 3) => yielded = <<1, 2>>

C6_Witness_OneToFive ==
    Built /\ range.start = 1 /\ range.stop = 5 /\ Exhausted /\ yielded = <<1, 2, 3, 4>>

\* C7: once a call of next has returned None, every later call on the range
\* returns None too and leaves start, stop and the cursor as they were.
C7_ExhaustionIsSticky ==
    [][(item.tag = "none" /\ calls' = calls + 1) => (item'.tag = "none" /\ range' = range)]_vars

C7_Witness_NoneAfterNone ==
    Built /\ nones >= 2 /\ item.tag = "none" /\ Len(yielded) > 0

\* C8: from_primitives and from_biguints return None exactly when start or stop
\* is zero; otherwise the range they return has the start and the stop given,
\* and its cursor at start, whether or not start <= stop.
C8_FromRaw ==
    op \in {"from_primitives", "from_biguints"} =>
        /\ (range.tag = "none") <=> (raw_start = 0 \/ raw_stop = 0)
        /\ Built => (range.start = raw_start /\ range.stop = raw_stop)
        /\ (Built /\ calls = 0) => range.value = raw_start
        /\ (raw_start = 1 /\ raw_stop = 10) => Built
        /\ (raw_start = 0 /\ raw_stop = 10) => ~Built

C8_Witness_InvertedAccepted ==
    op = "from_primitives" /\ raw_start = 5 /\ raw_stop = 3 /\ calls = 0
        /\ range = [tag |-> "some", start |-> 5, stop |-> 3, value |-> 5]

\* C10, as claimed: the cursor of a range never exceeds stop.
C10_CursorNeverExceedsStop ==
    Built => range.value <= range.stop

C10_State ==
    Built =>
        /\ item.tag # "panic"
        /\ range.value >= range.start
        /\ range.value <= Larger(range.start, range.stop)
        /\ Len(yielded) = range.value - range.start
        /\ Ascending => (nones = Larger(0, calls - (range.stop - range.start)))
        /\ (Ascending /\ Exhausted) =>
            (Len(yielded) = range.stop - range.start /\ range.value = range.stop)
        /\ ~Ascending => (yielded = <<>> /\ nones = calls /\ range.value = range.start)

C10_Step ==
    (Built /\ calls' = calls + 1) =>
        /\ range'.value >= range.value
        /\ range.value < range.stop => range'.value <= range.stop

\* C10, amended: every range is finite and its cursor only increases: under
\* repeated next calls the cursor never decreases, next never moves it past
\* stop, and it never exceeds the larger of start and stop (in an inverted range
\* it stays at start, above stop); a range with start < stop yields exactly
\* stop - start values and then returns None, without overflow also when stop
\* is the largest value of the domain; a range with start >= stop returns None
\* on its first call.
C10_FiniteAndIncreasing ==
    []C10_State /\ [][C10_Step]_vars

C10_Witness_UpToMax ==
    dom = "u8" /\ Built /\ range.start = 1 /\ range.stop = UMax /\ Exhausted
        /\ Len(yielded) = UMax - 1 /\ range.value = UMax

====
